---- MODULE Spec2Model ----
(***************************************************************************)
(* Model of the fiscal assistant's deterministic pipeline                  *)
(* (PremiumFiscalAssistant in app.py): the domain gate and the response    *)
(* arbitration of recherche_fiscale, the Elasticsearch retrieval of        *)
(* _get_contextual_results, and the environment they run in (the search    *)
(* client obtained at start-up, the availability of the search service,    *)
(* the indexed corpus).                                                    *)
(*                                                                         *)
(* Text is modelled as a sequence of one-character strings, so that        *)
(* str.lower() and the substring test `in` are computed, not assumed.      *)
(***************************************************************************)
EXTENDS Integers, Sequences, FiniteSets, TLC

(* ---------------------------- bounds ----------------------------------- *)
\* longest query, in words of Vocabulaire, a user or the agent submits
MaxWords == 2
\* largest number of documents the index holds
MaxDocs == 4
\* clients of the HTTP server with a request in flight at the same time
MaxClients == 2
\* inputs typed, or requests sent, in one run
MaxTurns == 2

(* ---------------------------- text ------------------------------------- *)
\* str.lower() on one character
LowerChar(c) ==
  CASE c = "A" -> "a" [] c = "B" -> "b" [] c = "C" -> "c" [] c = "D" -> "d"
    [] c = "E" -> "e" [] c = "F" -> "f" [] c = "G" -> "g" [] c = "H" -> "h"
    [] c = "I" -> "i" [] c = "J" -> "j" [] c = "K" -> "k" [] c = "L" -> "l"
    [] c = "M" -> "m" [] c = "N" -> "n" [] c = "O" -> "o" [] c = "P" -> "p"
    [] c = "Q" -> "q" [] c = "R" -> "r" [] c = "S" -> "s" [] c = "T" -> "t"
    [] c = "U" -> "u" [] c = "V" -> "v" [] c = "W" -> "w" [] c = "X" -> "x"
    [] c = "Y" -> "y" [] c = "Z" -> "z" [] c = "É" -> "é" [] c = "È" -> "è"
    [] c = "Ô" -> "ô" [] c = "Ç" -> "ç" [] c = "Â" -> "â"
    [] OTHER -> c

\* query.lower()
Lower(s) == [i \in 1..Len(s) |-> LowerChar(s[i])]

\* Python's `sub in s` on strings
Contains(sub, s) ==
  \E i \in 0..(Len(s) - Len(sub)) : \A j \in 1..Len(sub) : s[i + j] = sub[j]

(* ------------------- constants of recherche_fiscale -------------------- *)
\* the list as Python evaluates it: adjacent literals without a comma are
\* concatenated ("réouverture" "taxe sur la valeur ajoutée", "acte" "titre")
mots_cles_fiscaux ==
  <<<<"i","m","p","ô","t">>,
    <<"i","m","p","o","t">>,
    <<"t","a","x","e">>,
    <<"T","V","A">>,
    <<"C","F","P","N","B">>,
    <<"c","f","p","n","b">>,
    <<"p","v">>,
    <<"P","V">>,
    <<"P","M","E">>,
    <<"q","u","i","t","u","s">>,
    <<"P","C","F">>,
    <<"f","i","s","c","a","l","i","t","é">>,
    <<"d","é","c","l","a","r","a","t","i","o","n">>,
    <<"C","G","U">>,
    <<"P","a","t","e","n","t","e">>,
    <<"r","é","c","a","p","i","t","u","l","a","t","i","f","s">>,
    <<"e","x","o","n","é","r","a","t","i","o","n">>,
    <<"r","e","m","b","o","u","r","s","e","m","e","n","t">>,
    <<"t","r","o","p"," ","p","e","r","ç","u">>,
    <<"d","é","l","a","i">>,
    <<"q","u","i","t","u","s"," ","f","i","s","c","a","l"," ">>,
    <<"d","é","l","a","i"," ","d","e"," ","p","a","i","e","m","e","n","t">>,
    <<"q","u","i","t","t","a","n","c","e">>,
    <<"r","é","c","é","p","i","s","s","é">>,
    <<"r","e","v","e","n","u","s">>,
    <<"f","o","r","m","a","l","i","s","a","t","i","o","n">>,
    <<"c","o","n","t","r","i","b","u","t","i","o","n">>,
    <<"t","a","x","a","t","i","o","n">>,
    <<"d","r","o","i","t"," ","d","'","e","n","r","e","g","i","s","t","r","e","m","e","n","t">>,
    <<"d","r","o","i","t","s"," ","d","'","e","n","r","e","g","i","s","t","r","e","m","e","n","t">>,
    <<"t","a","x","e","s"," ","d","'","e","n","r","e","g","i","s","t","r","e","m","e","n","t">>,
    <<"e","n","t","r","e","p","r","i","s","e">>,
    <<"c","h","a","n","g","e","m","e","n","t"," ","d","e"," ","s","t","a","t","u","t","s">>,
    <<"t","a","x","e","s"," ","s","u","r"," ","l","e","s"," ","s","a","l","a","i","r","e","s">>,
    <<"t","a","x","e"," ","s","u","r"," ","l","e","s"," ","s","a","l","a","i","r","e","s">>,
    <<"t","a","x","e"," ","f","o","n","c","i","è","r","e">>,
    <<"t","a","x","e"," ","p","r","o","f","e","s","s","i","o","n","n","e","l","l","e">>,
    <<"N","I","N","E","A">>,
    <<"d","i","r","e","c","t">>,
    <<"i","n","d","i","r","e","c","t">>,
    <<"r","é","o","u","v","e","r","t","u","r","e","t","a","x","e"," ","s","u","r"," ","l","a"," ","v","a","l","e","u","r"," ","a","j","o","u","t","é","e">>,
    <<"t","v","a">>,
    <<"p","a","s","s","e","p","o","r","t">>,
    <<"t","a","x","e"," ","s","u","r"," ","l","e","s"," ","b","o","i","s","s","o","n","s">>,
    <<"r","é","d","u","c","t","i","o","n","s">>,
    <<"i","m","m","a","t","r","i","c","u","l","a","t","i","o","n">>,
    <<"p","r","o","p","r","i","é","t","a","i","r","e">>,
    <<"c","o","m","p","t","e">>,
    <<"d","u","p","l","i","c","a","t","a">>,
    <<"I","R">>,
    <<"I","S">>,
    <<"p","a","t","e","n","t","e">>,
    <<"d","o","u","a","n","e">>,
    <<"r","é","g","i","m","e"," ","f","i","s","c","a","l">>,
    <<"c","o","d","e"," ","g","é","n","é","r","a","l"," ","d","e","s"," ","i","m","p","ô","t","s">>,
    <<"p","r","o","c","é","d","u","r","e">>,
    <<"a","c","t","e"," ","a","d","m","i","n","i","s","t","r","a","t","i","f">>,
    <<"e","x","o","n","é","r","a","t","i","o","n","s">>,
    <<"o","b","l","i","g","a","t","i","o","n"," ","f","i","s","c","a","l","e">>,
    <<"p","e","n","a","l","i","t","é">>,
    <<"a","m","e","n","d","e">>,
    <<"c","o","n","t","r","ô","l","e"," ","f","i","s","c","a","l">>,
    <<"d","é","m","a","r","r","a","g","e"," ","d","e","s"," ","a","c","t","i","v","i","t","é","s">>,
    <<"h","o","m","o","l","o","g","a","t","i","o","n">>,
    <<"a","c","t","e","t","i","t","r","e">>,
    <<"S","I","G","T","A","S">>,
    <<"i","m","p","o","s","i","t","i","o","n">>,
    <<"b","a","i","l">>,
    <<"f","o","n","c","i","e","r"," ","b","â","t","i"," ">>,
    <<"f","o","n","c","i","e","r"," ","n","o","n"," ","b","â","t","i">>,
    <<"T","E","O","M">>,
    <<"v","v","é","r","i","f","i","c","a","t","i","o","n">>>>

salutations ==
  <<<<"b","o","n","j","o","u","r">>,
    <<"s","a","l","u","t">>,
    <<"h","e","l","l","o">>,
    <<"b","o","n","s","o","i","r">>,
    <<"c","o","u","c","o","u">>,
    <<"h","i">>,
    <<"s","a","l","a","m">>>>

\* _gerer_salutation() (the messages are kept without their leading emoji
\* and trailing newline)
gerer_salutation ==
  "Bonjour ! Assistant fiscal sénégalais à votre service. Posez-moi vos questions sur les impôts et taxes."

\* the out-of-domain refusal
MsgRefus ==
  "Je suis un assistant spécialisé exclusivement en fiscalité sénégalaise."

\* the not-found message
MsgNonTrouve ==
  "Je n'ai pas trouvé d'information précise dans ma base fiscale. Consultez le site officiel : www.impotsetdomaines.gouv.sn"

(* ---------------------------- queries ---------------------------------- *)
QRecette ==
  <<"q","u","e","l","l","e"," ","e","s","t"," ","l","a"," ","m","e","i","l","l","e","u","r","e"," ","r","e","c","e","t","t","e"," ","d","e"," ","t","h","i","é","b","o","u","d","i","e","n","n","e">>

QBonjour ==
  <<"b","o","n","j","o","u","r",","," ","c","o","m","m","e","n","t"," ","a","l","l","e","z","-","v","o","u","s">>

QDelais ==
  <<"Q","u","e","l","s"," ","s","o","n","t"," ","l","e","s"," ","d","é","l","a","i","s"," ","p","o","u","r"," ","l","a"," ","d","é","c","l","a","r","a","t","i","o","n"," ","d","e"," ","T","V","A"," ","?">>

Vocabulaire ==
  { <<"B","o","n","j","o","u","r">>,
    <<"N","I","N","E","A">>,
    <<"i","m","p","ô","t">>,
    <<"r","e","c","e","t","t","e">> }

RECURSIVE Join(_)
Join(ws) ==
  IF Len(ws) = 1 THEN ws[1] ELSE ws[1] \o <<" ">> \o Join(Tail(ws))

\* the queries submitted: the three scenario queries and every phrase of at
\* most MaxWords words
Queries ==
  {QRecette, QBonjour, QDelais}
    \cup { Join(ws) : ws \in UNION { [1..n -> Vocabulaire] : n \in 1..MaxWords } }

NoQuery == <<"<none>">>

(* ------------------------- the search service -------------------------- *)
NoField == "<absent>"
None == "None"

\* "fields": ["question^3", "reponse^2", "tags"]
Boost == [question |-> 3, reponse |-> 2, tags |-> 1]

\* a request for one hit too many
SearchSizeFour == 3 + 1

\* "size": 3
SearchSize == 3

TermImpot == <<"i","m","p","ô","t">>
TermDelai == <<"d","é","l","a","i">>
TermRecette == <<"r","e","c","e","t","t","e">>

\* The documents that may be indexed.  terms: the analysed terms of the
\* document; matched: the fields in which they occur; source: the stored
\* _source, where a field the document was indexed without is NoField.
DocPool ==
  { [id |-> 1, terms |-> {TermImpot, TermDelai}, matched |-> {"question", "reponse"},
     source |-> [question |-> "délai déclaration TVA", reponse |-> "30 jours"]],
    [id |-> 2, terms |-> {TermImpot}, matched |-> {"reponse"},
     source |-> [question |-> "taux", reponse |-> "18 %"]],
    [id |-> 3, terms |-> {TermImpot}, matched |-> {"tags"},
     source |-> [question |-> "barème", reponse |-> ""]],
    [id |-> 4, terms |-> {TermImpot}, matched |-> {"tags"},
     source |-> [question |-> "quitus", reponse |-> NoField]],
    [id |-> 5, terms |-> {TermRecette}, matched |-> {"question"},
     source |-> [question |-> "recette", reponse |-> "Article 12"]],
    [id |-> 6, terms |-> {TermImpot}, matched |-> {"reponse"},
     source |-> [question |-> NoField, reponse |-> "Article 7"]] }

Max(S) == CHOOSE x \in S : \A y \in S : y <= x

\* "type": "best_fields": the score of the best matching field
Score(doc) == Max({ Boost[f] : f \in doc.matched })

\* multi_match of the query against the analysed (lower-cased) terms
Matches(doc, query) == \E t \in doc.terms : Contains(t, Lower(query))

Before(d, e) == Score(d) > Score(e) \/ (Score(d) = Score(e) /\ d.id <= e.id)

RECURSIVE TopHits(_, _)
TopHits(S, n) ==
  IF n = 0 \/ S = {} THEN <<>>
  ELSE LET best == CHOOSE d \in S : \A e \in S : Before(d, e)
       IN  <<[id |-> best.id, score |-> Score(best), source |-> best.source]>>
             \o TopHits(S \ {best}, n - 1)

\* es.search(index=..., body={"query": ..., "size": size}): the hits, best
\* score first, at most size of them
es_search(docs, query, size) ==
  TopHits({ d \in docs : Matches(d, query) }, size)

(* -------------------- _get_contextual_results -------------------------- *)
\* what the except clause returns
Absorbed(sent, found) ==
  [responses |-> <<>>, best_score |-> 0, raised |-> FALSE,
   searches |-> sent, hits |-> found, ok |-> FALSE]

\* the variant whose search request is sent outside the try block: a missing
\* client or a transport error reaches the caller
get_contextual_results_unguarded(client, up, docs, query) ==
  IF client = None \/ ~up
    THEN [responses |-> <<>>, best_score |-> 0, raised |-> TRUE,
          searches |-> (IF client = None THEN 0 ELSE 1), hits |-> <<>>,
          ok |-> FALSE]
  ELSE
    LET found == es_search(docs, query, SearchSize) IN
    IF found = <<>>
      THEN [responses |-> <<>>, best_score |-> 0, raised |-> FALSE,
            searches |-> 1, hits |-> found, ok |-> TRUE]
    ELSE IF \E i \in 1..Len(found) :
              \/ found[i].source.reponse = NoField
              \/ found[i].source.question = NoField
      THEN Absorbed(1, found)
    ELSE [responses |-> [i \in 1..Len(found) |-> found[i].source.reponse],
          best_score |-> found[1].score, raised |-> FALSE,
          searches |-> 1, hits |-> found, ok |-> TRUE]

get_contextual_results(client, up, docs, query) ==
  IF client = None
    THEN \* self.es.search on None: AttributeError, caught
         Absorbed(0, <<>>)
  ELSE IF ~up
    THEN \* transport error raised by es.search, caught
         Absorbed(1, <<>>)
  ELSE
    LET found == es_search(docs, query, SearchSize) IN
    IF found = <<>>
      THEN [responses |-> <<>>, best_score |-> 0, raised |-> FALSE,
            searches |-> 1, hits |-> found, ok |-> TRUE]
    ELSE IF \E i \in 1..Len(found) : found[i].source.reponse = NoField
      THEN \* hit['_source']['reponse']: KeyError, caught
           Absorbed(1, found)
    ELSE IF \E i \in 1..Len(found) : found[i].source.question = NoField
      THEN \* hit['_source']['question'] in the display loop: KeyError, caught
           Absorbed(1, found)
    ELSE [responses |-> [i \in 1..Len(found) |-> found[i].source.reponse],
          best_score |-> found[1].score, raised |-> FALSE,
          searches |-> 1, hits |-> found, ok |-> TRUE]

(* -------------------------- recherche_fiscale -------------------------- *)
IsSalutation(query_lower) ==
  \E i \in 1..Len(salutations) : Contains(salutations[i], query_lower)

IsFiscal(query_lower) ==
  \E i \in 1..Len(mots_cles_fiscaux) : Contains(mots_cles_fiscaux[i], query_lower)

Short(text) ==
  [result |-> text, raised |-> FALSE, engine |-> 0, searches |-> 0,
   responses |-> <<>>, best_score |-> 0, hits |-> <<>>, ok |-> FALSE]

\* what follows the gate: retrieval and arbitration
Arbitrate(client, up, docs, q) ==
  LET r == get_contextual_results(client, up, docs, q) IN
  [result |-> IF r.raised THEN "<exception>"
              ELSE IF r.responses = <<>> THEN MsgNonTrouve
              ELSE r.responses[1],
   raised |-> r.raised, engine |-> 1, searches |-> r.searches,
   responses |-> r.responses, best_score |-> r.best_score,
   hits |-> r.hits, ok |-> r.ok]

\* variants of recherche_fiscale: the domain test placed before the greeting
\* test; the domain test left out; the retrieval done before the gate
recherche_fiscale_domain_first(client, up, docs, q) ==
  LET query_lower == Lower(q) IN
  IF ~IsFiscal(query_lower) THEN Short(MsgRefus)
  ELSE IF IsSalutation(query_lower) THEN Short(gerer_salutation)
  ELSE Arbitrate(client, up, docs, q)

recherche_fiscale_no_domain_test(client, up, docs, q) ==
  LET query_lower == Lower(q) IN
  IF IsSalutation(query_lower) THEN Short(gerer_salutation)
  ELSE Arbitrate(client, up, docs, q)

recherche_fiscale_eager(client, up, docs, q) ==
  LET query_lower == Lower(q)
      a == Arbitrate(client, up, docs, q) IN
  IF IsSalutation(query_lower)
    THEN [a EXCEPT !.result = gerer_salutation]
  ELSE IF ~IsFiscal(query_lower)
    THEN [a EXCEPT !.result = MsgRefus]
  ELSE a

recherche_fiscale(client, up, docs, q) ==
  LET query_lower == Lower(q) IN
  IF IsSalutation(query_lower) THEN Short(gerer_salutation)
  ELSE IF ~IsFiscal(query_lower) THEN Short(MsgRefus)
  ELSE Arbitrate(client, up, docs, q)

(* ------------------------------ state ---------------------------------- *)
VARIABLES
  es,           \* self.es: the client, or None when the connection failed
  esUp,         \* the search service answers requests
  corpus,       \* the documents of index assistant_fiscal_v2
  query,        \* argument of the latest call of recherche_fiscale since the
                \* corpus last changed
  result,       \* its return value
  raised,       \* it ended by an exception
  responses,    \* what _get_contextual_results returned to it
  best_score,
  hits,         \* the hits the search service returned to it
  engineCalls,  \* calls of _get_contextual_results it made
  searchCalls,  \* search requests it sent
  searchOk,     \* its search request was answered
  prev,         \* an earlier call, the corpus being unchanged since; again:
                \* a call was made after it
  program,      \* what runs the assistant: app.py's run() or api.py's server
  running,      \* the loop of run() has not ended
  memory,       \* ConversationBufferMemory of the agent; by: the session
                \* whose turn appended the entry
  transcript,   \* every input received and every reply given, in order
  response_cache, \* self.response_cache
  turn,         \* per session, the call of the agent in progress
  event,        \* what the latest step of a session did
  turnsDone     \* inputs and requests received so far

vars == <<es, esUp, corpus, query, result, raised, responses, best_score,
          hits, engineCalls, searchCalls, searchOk, prev,
          program, running, memory, transcript, response_cache, turn, event,
          turnsDone>>

session == <<program, running, memory, transcript, response_cache, turn,
             event, turnsDone>>

env == <<es, esUp, corpus>>
call == <<query, result, raised, responses, best_score, hits,
          engineCalls, searchCalls, searchOk>>

NoCall == [query |-> NoQuery, result |-> "", ok |-> FALSE, again |-> FALSE]

\* the queries of the retrieval runs: in-domain ones matching different
\* documents, an out-of-domain one and a greeting
RetrievalQueries ==
  { <<"i","m","p","ô","t">>,
    <<"i","m","p","ô","t"," ","r","e","c","e","t","t","e">>,
    QDelais,
    <<"r","e","c","e","t","t","e">>,
    QBonjour }

\* the sessions: the only user of run(), or the clients of the server
Sessions == 1..MaxClients

IdleTurn ==
  [pc |-> "idle", input |-> <<>>, iterations |-> 0, toolInput |-> <<>>,
   seen |-> {}]

NoEvent ==
  [kind |-> "none", session |-> 0, status |-> 0, message |-> "",
   question |-> <<>>, key |-> "None", agent |-> FALSE, exception |-> FALSE,
   caught |-> FALSE, viderCache |-> 0, capped |-> FALSE]

\* __init__ and _init_agent: an empty cache and an empty memory; api.py
\* builds one assistant at import (line 10), app.py one in __main__
InitSession ==
  /\ program \in {"cli", "api"}
  /\ running = TRUE
  /\ memory = <<>>
  /\ transcript = <<>>
  /\ response_cache = {}
  /\ turn = [s \in Sessions |-> IdleTurn]
  /\ event = NoEvent
  /\ turnsDone = 0

InitCall ==
  /\ query = NoQuery
  /\ result = ""
  /\ raised = FALSE
  /\ responses = <<>>
  /\ best_score = 0
  /\ hits = <<>>
  /\ engineCalls = 0
  /\ searchCalls = 0
  /\ searchOk = FALSE
  /\ prev = NoCall

\* __init__: _init_elasticsearch returns the client when ping() succeeds and
\* None otherwise
InitElasticsearch ==
  /\ esUp \in BOOLEAN
  /\ es \in (IF esUp THEN {"client"} ELSE {None})

Init ==
  /\ InitElasticsearch
  /\ corpus \in { c \in SUBSET DocPool : Cardinality(c) <= 1 }
  /\ InitCall
  /\ InitSession

\* the variant that keeps the previous reply and serves it again when the
\* previous query occurs in the new one, instead of searching
RechercheFiscaleCached(q) ==
  \E r \in {recherche_fiscale(es, esUp, corpus, q)} :
    \E cached \in {query # NoQuery /\ Contains(query, q)} :
      /\ query' = q
      /\ result' = IF cached THEN result ELSE r.result
      /\ raised' = IF cached THEN raised ELSE r.raised
      /\ responses' = IF cached THEN responses ELSE r.responses
      /\ best_score' = IF cached THEN best_score ELSE r.best_score
      /\ hits' = IF cached THEN hits ELSE r.hits
      /\ engineCalls' = IF cached THEN engineCalls ELSE r.engine
      /\ searchCalls' = IF cached THEN searchCalls ELSE r.searches
      /\ searchOk' = IF cached THEN searchOk ELSE r.ok
      /\ prev' = IF prev = NoCall THEN prev ELSE [prev EXCEPT !.again = TRUE]
      /\ UNCHANGED env
      /\ UNCHANGED session

\* one call of the tool BaseFiscalePremium (func = recherche_fiscale)
RechercheFiscale(q) ==
  \E r \in {recherche_fiscale(es, esUp, corpus, q)} :
    /\ query' = q
    /\ result' = r.result
    /\ raised' = r.raised
    /\ responses' = r.responses
    /\ best_score' = r.best_score
    /\ hits' = r.hits
    /\ engineCalls' = r.engine
    /\ searchCalls' = r.searches
    /\ searchOk' = r.ok
    /\ prev' = IF prev = NoCall THEN prev ELSE [prev EXCEPT !.again = TRUE]
    /\ UNCHANGED env
    /\ UNCHANGED session

\* history: the latest call is kept for comparison with later ones
Remember ==
  /\ query # NoQuery
  /\ prev' = [query |-> query, result |-> result, ok |-> searchOk, again |-> FALSE]
  /\ prev' # prev
  /\ UNCHANGED env
  /\ UNCHANGED call
  /\ UNCHANGED session

\* the search service becomes unreachable, or reachable again
ServiceDown ==
  /\ esUp
  /\ esUp' = FALSE
  /\ UNCHANGED <<es, corpus, prev>>
  /\ UNCHANGED call
  /\ UNCHANGED session

ServiceUp ==
  /\ ~esUp
  /\ esUp' = TRUE
  /\ UNCHANGED <<es, corpus, prev>>
  /\ UNCHANGED call
  /\ UNCHANGED session

\* the corpus changes: a document is indexed or deleted.  The record of the
\* latest call and the remembered call are of the corpus as it was: they are
\* dropped.
ForgetCalls ==
  /\ query' = NoQuery
  /\ result' = ""
  /\ raised' = FALSE
  /\ responses' = <<>>
  /\ best_score' = 0
  /\ hits' = <<>>
  /\ engineCalls' = 0
  /\ searchCalls' = 0
  /\ searchOk' = FALSE
  /\ prev' = NoCall

IndexDoc(d) ==
  /\ d \notin corpus
  /\ Cardinality(corpus) < MaxDocs
  /\ corpus' = corpus \cup {d}
  /\ ForgetCalls
  /\ UNCHANGED <<es, esUp>>
  /\ UNCHANGED session

DeleteDoc(d) ==
  /\ d \in corpus
  /\ corpus' = corpus \ {d}
  /\ ForgetCalls
  /\ UNCHANGED <<es, esUp>>
  /\ UNCHANGED session

\* the retrieval runs: a few queries over a changing index
Next ==
  \/ \E q \in RetrievalQueries : RechercheFiscale(q)
  \/ Remember
  \/ ServiceDown
  \/ ServiceUp
  \/ \E d \in DocPool : IndexDoc(d)
  \/ \E d \in DocPool : DeleteDoc(d)

Spec == Init /\ [][Next]_vars

\* the gate runs: every query of Queries, the index being left as it is
NextGate ==
  \/ \E q \in Queries : RechercheFiscale(q)
  \/ ServiceDown
  \/ ServiceUp

SpecGate == Init /\ [][NextGate]_vars

(* --------------------- the sessions: run() and api.py ------------------ *)
IsSpace(c) == c \in {" ", "\t"}

RECURSIVE LStrip(_)
LStrip(s) ==
  IF s = <<>> THEN s
  ELSE IF IsSpace(Head(s)) THEN LStrip(Tail(s)) ELSE s

RECURSIVE RStrip(_)
RStrip(s) ==
  IF s = <<>> THEN s
  ELSE IF IsSpace(s[Len(s)]) THEN RStrip(SubSeq(s, 1, Len(s) - 1)) ELSE s

\* str.strip()
Strip(s) == RStrip(LStrip(s))

\* the number of characters of s that are not whitespace
NonWs(s) == Cardinality({ i \in 1..Len(s) : ~IsSpace(s[i]) })

\* run(): ['exit', 'quit', 'q'] and ['vider cache', 'reset']
CmdExit ==
  { <<"e","x","i","t">>, <<"q","u","i","t">>, <<"q">> }

CmdReset ==
  { <<"v","i","d","e","r"," ","c","a","c","h","e">>,
    <<"r","e","s","e","t">> }

\* what the user types at the prompt of run()
CliInputs ==
  { <<"E","X","I","T">>,
    <<" ","R","e","s","e","t">>,
    <<"B","o","n","j","o","u","r">>,
    <<" "," ">>,
    <<"i","m","p","ô","t">> }

\* the question parameter of GET /fiscalite
Questions ==
  { <<>>,
    <<" "," ">>,
    <<"a","b">>,
    <<"a"," ","b">>,
    <<"i","m","p","ô","t">> }

\* get_fiscalite: API_KEY
API_KEY == "ma-cle-secrete"

\* the x-api-key header: absent (None), empty, the key, another key
Keys == {None, "", API_KEY, "mauvaise-cle"}

Msg403 == "Accès non autorisé. Clé invalide."
MsgPrecise == "Veuillez poser une question fiscale plus précise."
MsgRetry == "Veuillez reformuler votre question ou contacter le support technique."
Msg500 == "Internal Server Error"

\* the text of a final answer of the language model
LlmAnswer == "Réponse de l'agent"

\* one iteration more
max_iterations_five == 4 + 1

\* max_iterations=4
max_iterations == 4

\* the variant with the comparison inverted
KeyRejectedInverted(x_api_key) ==
  x_api_key \notin {None, ""} /\ x_api_key = API_KEY

\* `if x_api_key and x_api_key != API_KEY`
KeyRejected(x_api_key) ==
  x_api_key \notin {None, ""} /\ x_api_key # API_KEY

\* `if not question.strip() or len(question) < 3`
QuestionRejected(question) ==
  Strip(question) = <<>> \/ Len(question) < 3

\* vider_cache(): self.response_cache.clear()
vider_cache(cache) == {}

Ev(kind, s) == [NoEvent EXCEPT !.kind = kind, !.session = s]

\* the agent is invoked: the memory is loaded into the prompt and the
\* executor starts with no iteration done
BeginTurn(s, input) ==
  /\ turn' = [turn EXCEPT ![s] =
                [pc |-> "reasoning", input |-> input, iterations |-> 0,
                 toolInput |-> <<>>,
                 seen |-> { memory[i].by : i \in 1..Len(memory) }]]
  /\ transcript' = Append(transcript,
                          [role |-> "user", content |-> input, by |-> s])

\* one pass of the loop of run(): input, commands, greeting, agent
CliInput(raw) ==
  /\ program = "cli"
  /\ running
  /\ turn[1].pc = "idle"
  /\ turnsDone < MaxTurns
  /\ turnsDone' = turnsDone + 1
  /\ \E user_input \in {Strip(raw)} : \E low \in {Lower(Strip(raw))} :
       IF low \in CmdExit
         THEN /\ running' = FALSE
              /\ event' = [Ev("cli_exit", 1) EXCEPT !.question = user_input]
              /\ UNCHANGED <<memory, transcript, response_cache, turn>>
       ELSE IF low \in CmdReset
         THEN /\ response_cache' = vider_cache(response_cache)
              /\ event' = [Ev("cli_reset", 1) EXCEPT !.question = user_input,
                                                     !.viderCache = 1]
              /\ UNCHANGED <<running, memory, transcript, turn>>
       ELSE IF IsSalutation(low)
         THEN /\ transcript' = transcript \o
                   <<[role |-> "user", content |-> user_input, by |-> 1],
                     [role |-> "assistant", content |-> gerer_salutation,
                      by |-> 1]>>
              /\ event' = [Ev("cli_greeting", 1) EXCEPT
                             !.question = user_input,
                             !.message = gerer_salutation]
              /\ UNCHANGED <<running, memory, response_cache, turn>>
       ELSE /\ BeginTurn(1, user_input)
            /\ event' = [Ev("cli_turn", 1) EXCEPT !.question = user_input,
                                                  !.agent = TRUE]
            /\ UNCHANGED <<running, memory, response_cache>>
  /\ UNCHANGED <<program, env, prev>>
  /\ UNCHANGED call

\* Ctrl-C at the prompt: the loop ends
CliInterrupt ==
  /\ program = "cli"
  /\ running
  /\ turn[1].pc = "idle"
  /\ running' = FALSE
  /\ event' = Ev("cli_interrupt", 1)
  /\ UNCHANGED <<program, memory, transcript, response_cache, turn,
                 turnsDone, env, prev>>
  /\ UNCHANGED call

\* get_fiscalite up to the call of assistant.agent.run
HttpReceive(s, question, x_api_key) ==
  /\ program = "api"
  /\ turn[s].pc = "idle"
  /\ turnsDone < MaxTurns
  /\ turnsDone' = turnsDone + 1
  /\ \E rejected \in {QuestionRejected(question)} :
       IF KeyRejected(x_api_key)
         THEN /\ event' = [Ev("http", s) EXCEPT
                             !.status = 403, !.message = Msg403,
                             !.question = question, !.key = x_api_key]
              /\ UNCHANGED <<transcript, turn>>
       ELSE IF rejected
         THEN /\ event' = [Ev("http", s) EXCEPT
                             !.status = 200, !.message = MsgPrecise,
                             !.question = question, !.key = x_api_key]
              /\ UNCHANGED <<transcript, turn>>
       ELSE /\ BeginTurn(s, question)
            /\ event' = [Ev("http_turn", s) EXCEPT
                           !.question = question, !.key = x_api_key,
                           !.agent = TRUE]
  /\ UNCHANGED <<program, running, memory, response_cache, env, prev>>
  /\ UNCHANGED call

\* the turn ends with an answer: the executor saves the input and the output
\* in the memory and returns; run() prints the output, get_fiscalite returns
\* it.  cache and clears: the cache after the turn and the calls of
\* vider_cache made.
EndTurnWith(s, output, capped, cache, clears) ==
  /\ memory' = memory \o
       <<[role |-> "user", content |-> turn[s].input, by |-> s],
         [role |-> "assistant", content |-> output, by |-> s]>>
  /\ transcript' = Append(transcript,
                          [role |-> "assistant", content |-> output, by |-> s])
  /\ turn' = [turn EXCEPT ![s] = IdleTurn]
  /\ response_cache' = cache
  /\ event' = [Ev(IF program = "cli" THEN "cli_answer" ELSE "http", s) EXCEPT
                 !.status = (IF program = "cli" THEN 0 ELSE 200),
                 !.message = output, !.question = turn[s].input,
                 !.agent = TRUE, !.capped = capped, !.viderCache = clears]

\* variants: the reply is stored in the cache; the cache is cleared after
\* every turn
EndTurnCaching(s, output, capped) ==
  EndTurnWith(s, output, capped,
              response_cache \cup {[key |-> turn[s].input, value |-> output]},
              0)

EndTurnClearing(s, output, capped) ==
  EndTurnWith(s, output, capped, vider_cache(response_cache), 1)

EndTurn(s, output, capped) ==
  EndTurnWith(s, output, capped, response_cache, 0)

\* the turn ends by an exception: run() catches it, asks the user to retry
\* and calls vider_cache; get_fiscalite has no handler, the server answers 500
FailTurn(s, capped) ==
  /\ turn' = [turn EXCEPT ![s] = IdleTurn]
  /\ IF program = "cli"
       THEN /\ response_cache' = vider_cache(response_cache)
            /\ event' = [Ev("cli_error", s) EXCEPT
                           !.message = MsgRetry, !.question = turn[s].input,
                           !.agent = TRUE, !.exception = TRUE,
                           !.caught = TRUE, !.viderCache = 1,
                           !.capped = capped]
       ELSE /\ response_cache' = response_cache
            /\ event' = [Ev("http", s) EXCEPT
                           !.status = 500, !.message = Msg500,
                           !.question = turn[s].input, !.agent = TRUE,
                           !.exception = TRUE, !.capped = capped]
  /\ UNCHANGED <<memory, transcript>>

\* what the language model may answer to a Reasoning step: a tool request
\* (with the user's input or a reformulation), a final answer, or a failure
\* (the service is unreachable, or its text cannot be parsed)
LlmOutputs(t) ==
  { [type |-> "tool", input |-> q] : q \in {t.input, TermImpot} }
    \cup { [type |-> "final", input |-> <<>>],
           [type |-> "error", input |-> <<>>] }

\* Reasoning: one call of the language model inside the loop
AgentPlan(s) ==
  /\ turn[s].pc = "reasoning"
  /\ turn[s].iterations < max_iterations
  /\ \E out \in LlmOutputs(turn[s]) :
       IF out.type = "tool"
         THEN /\ turn' = [turn EXCEPT ![s].pc = "tool",
                                      ![s].toolInput = out.input]
              /\ event' = [Ev("agent_plan", s) EXCEPT !.agent = TRUE]
              /\ UNCHANGED <<memory, transcript, response_cache>>
       ELSE IF out.type = "final"
         THEN EndTurn(s, LlmAnswer, FALSE)
       ELSE FailTurn(s, FALSE)
  /\ UNCHANGED <<program, running, turnsDone, env, prev>>
  /\ UNCHANGED call

\* ToolInvocation: BaseFiscalePremium is called, its text is the observation
\* and the iteration is counted
AgentTool(s) ==
  /\ turn[s].pc = "tool"
  /\ \E r \in {recherche_fiscale(es, esUp, corpus, turn[s].toolInput)} :
       /\ query' = turn[s].toolInput
       /\ result' = r.result
       /\ raised' = r.raised
       /\ responses' = r.responses
       /\ best_score' = r.best_score
       /\ hits' = r.hits
       /\ engineCalls' = r.engine
       /\ searchCalls' = r.searches
       /\ searchOk' = r.ok
       /\ IF r.raised
            THEN FailTurn(s, FALSE)
            ELSE /\ turn' = [turn EXCEPT
                               ![s].pc = "reasoning",
                               ![s].iterations = turn[s].iterations + 1]
                 /\ event' = [Ev("agent_tool", s) EXCEPT !.agent = TRUE]
                 /\ UNCHANGED <<memory, transcript, response_cache>>
  /\ UNCHANGED <<program, running, turnsDone, env, prev>>

\* the cap is reached: early_stopping_method="generate", the language model
\* is called once more for a final answer
AgentStopped(s) ==
  /\ turn[s].pc = "reasoning"
  /\ turn[s].iterations >= max_iterations
  /\ \E ok \in BOOLEAN :
       IF ok THEN EndTurn(s, LlmAnswer, TRUE) ELSE FailTurn(s, TRUE)
  /\ UNCHANGED <<program, running, turnsDone, env, prev>>
  /\ UNCHANGED call

AgentStep(s) == AgentPlan(s) \/ AgentTool(s) \/ AgentStopped(s)

NextSession ==
  \/ \E raw \in CliInputs : CliInput(raw)
  \/ CliInterrupt
  \/ \E s \in Sessions : \E question \in Questions : \E k \in Keys :
       HttpReceive(s, question, k)
  \/ \E s \in Sessions : AgentPlan(s)
  \/ \E s \in Sessions : AgentTool(s)
  \/ \E s \in Sessions : AgentStopped(s)

\* the sessions run with the search client connected, over an index that
\* holds the first document
InitAssistant ==
  /\ Init
  /\ es = "client"
  /\ corpus = { d \in DocPool : d.id = 1 }

SpecSession == InitAssistant /\ [][NextSession]_vars

\* one run of run().  A call of the language model or of the tool returns
\* (or raises): a turn in progress takes its next step.
InitCli ==
  /\ InitAssistant
  /\ program = "cli"

NextCli ==
  \/ \E raw \in CliInputs : CliInput(raw)
  \/ CliInterrupt
  \/ AgentStep(1)

SpecCliFair == InitCli /\ [][NextCli]_vars /\ WF_vars(AgentStep(1))

TypeOK ==
  /\ es \in {"client", None}
  /\ esUp \in BOOLEAN
  /\ corpus \subseteq DocPool
  /\ query \in Queries \cup RetrievalQueries \cup Questions
       \cup { Strip(raw) : raw \in CliInputs } \cup {NoQuery}
  /\ engineCalls \in 0..1
  /\ searchCalls \in 0..1
  /\ program \in {"cli", "api"}
  /\ running \in BOOLEAN
  /\ turnsDone \in 0..MaxTurns
  /\ \A s \in Sessions :
       /\ turn[s].pc \in {"idle", "reasoning", "tool"}
       /\ turn[s].iterations >= 0

(* ------------------------------ claims --------------------------------- *)
Called == query # NoQuery

\* the class the gate of recherche_fiscale gives a query
Classe(q) ==
  IF IsSalutation(Lower(q)) THEN "Greeting"
  ELSE IF ~IsFiscal(Lower(q)) THEN "OutOfDomain"
  ELSE "InDomain"

\* C1: a query whose lower-cased text contains a greeting token gets the
\* fixed greeting message, whether or not it also contains domain keywords.
C1_GreetingPrecedence ==
  (Called /\ IsSalutation(Lower(query)))
    => (result = gerer_salutation /\ ~raised)

C1_Witness ==
  /\ Called
  /\ IsSalutation(Lower(query))
  /\ IsFiscal(Lower(query))
  /\ result = gerer_salutation

\* C2: a query that contains no domain keyword and no greeting token gets
\* the fixed out-of-domain refusal.
C2_OutOfDomainRefused ==
  (Called /\ ~IsSalutation(Lower(query)) /\ ~IsFiscal(Lower(query)))
    => (result = MsgRefus /\ ~raised)

C2_Witness ==
  /\ query = <<"r","e","c","e","t","t","e">>
  /\ result = MsgRefus

\* C3: for every keyword k of the list, a query that contains k and no
\* greeting token is in-domain: it is not refused and the retrieval engine
\* is invoked.
C3_EveryKeywordInDomain ==
  Called =>
    \A i \in 1..Len(mots_cles_fiscaux) :
      (Contains(mots_cles_fiscaux[i], query) /\ ~IsSalutation(Lower(query)))
        => (result # MsgRefus /\ engineCalls = 1)

\* C4: an in-domain query whose search returns a non-empty hit list gets
\* exactly the answer text of the first hit.
C4_TopHitAnswer ==
  (Called /\ engineCalls = 1 /\ hits # <<>>
     /\ hits[1].source.reponse # NoField)
    => result = hits[1].source.reponse

\* C5: every search failure (no client, transport error, malformed hit) is
\* absorbed: _get_contextual_results returns ([], 0) without raising, and
\* recherche_fiscale returns the not-found message, as it does when the
\* search succeeds with zero hits.
C5_FailureAbsorbed ==
  (Called /\ engineCalls = 1)
    => /\ ~raised
       /\ ~searchOk => (responses = <<>> /\ best_score = 0)
       /\ (~searchOk \/ hits = <<>>) => result = MsgNonTrouve

C5_Witness ==
  /\ Called
  /\ engineCalls = 1
  /\ es = None
  /\ ~searchOk
  /\ result = MsgNonTrouve

\* C6: whatever the query and the corpus, recherche_fiscale returns a
\* non-empty string and does not raise.
C6_NonEmptyReply ==
  Called => (result # "" /\ ~raised)

\* C7: the list returned by _get_contextual_results has at most 3 elements,
\* in the order of non-increasing score, and best_score is the first hit's
\* score, or 0 when the list is empty.
C7_AtMostThreeSorted ==
  (Called /\ engineCalls = 1)
    => /\ Len(responses) <= 3
       /\ responses # <<>> =>
            /\ Len(responses) = Len(hits)
            /\ \A i \in 1..Len(hits) : responses[i] = hits[i].source.reponse
            /\ \A i, j \in 1..Len(hits) :
                 i < j => hits[i].score >= hits[j].score
            /\ best_score = hits[1].score
       /\ responses = <<>> => best_score = 0

C7_Witness ==
  /\ Called
  /\ Len(responses) = 3
  /\ hits[1].score > hits[3].score
  /\ best_score = hits[1].score
  /\ Cardinality({ d \in corpus : Matches(d, query) }) > 3

\* C8 as stated: the same in-domain query, called again with no change of
\* the corpus since, gets the same text.
C8_SameReply ==
  (Called /\ prev.again /\ prev.query = query /\ Classe(query) = "InDomain")
    => result = prev.result

\* C8 as amended: ... provided the search is answered in both calls or
\* fails in both.
C8_SameReplySameAvailability ==
  (Called /\ prev.again /\ prev.query = query /\ Classe(query) = "InDomain"
     /\ prev.ok = searchOk)
    => result = prev.result

C8_Witness ==
  /\ Called
  /\ prev.again
  /\ prev.query = query
  /\ Classe(query) = "InDomain"
  /\ prev.ok
  /\ searchOk
  /\ responses # <<>>
  /\ result = prev.result

\* C9: a greeting or an out-of-domain query is answered without invoking the
\* retrieval engine; a search is sent only for an in-domain query, and at
\* most once per call.
C9_ShortCircuit ==
  Called =>
    /\ Classe(query) # "InDomain" => (engineCalls = 0 /\ searchCalls = 0)
    /\ Classe(query) = "Greeting" => result = gerer_salutation
    /\ Classe(query) = "OutOfDomain" => result = MsgRefus
    /\ engineCalls <= 1
    /\ searchCalls <= 1

C9_Witness ==
  /\ query = QBonjour
  /\ result = gerer_salutation
  /\ engineCalls = 0
  /\ searchCalls = 0

\* C10: the query "quelle est la meilleure recette de thiéboudienne" is
\* out-of-domain and gets the fixed refusal.
C10_RecetteRefused ==
  query = QRecette => result = MsgRefus

HttpEvent == event.kind \in {"http", "http_turn"}

NoTurn == \A s \in Sessions : turn[s].pc = "idle"

\* C11: get_fiscalite rejects every question with fewer than 3 characters
\* that are not whitespace: it returns the fixed message and the agent is not
\* invoked.
C11_ShortQuestionRejected ==
  (HttpEvent /\ event.status # 403 /\ NonWs(event.question) < 3)
    => (event.message = MsgPrecise /\ ~event.agent)

\* C12 as stated: a request with a credential other than the API key, the
\* empty one included, ends in 403 and the agent is not invoked.
C12_WrongKeyForbidden ==
  (HttpEvent /\ event.key \notin {None, API_KEY})
    => (event.status = 403 /\ ~event.agent)

\* C12 as amended: a request with a non-empty credential other than the API
\* key ends in 403 and the agent is not invoked, whatever the question.
C12_NonEmptyWrongKeyForbidden ==
  (HttpEvent /\ event.key \notin {None, "", API_KEY})
    => (event.status = 403 /\ event.message = Msg403 /\ ~event.agent)

C12_Witness ==
  /\ HttpEvent
  /\ event.key = "mauvaise-cle"
  /\ ~QuestionRejected(event.question)
  /\ event.status = 403
  /\ ~event.agent

C13_Bounded ==
  \A s \in Sessions : turn[s].iterations <= 4

C13_CapAnswerUnlessLlmFails ==
  /\ C13_Bounded
  /\ (event.capped /\ ~event.exception)
       => (event.message = LlmAnswer /\ event.message # "")
  /\ (event.capped /\ event.exception) => turn[event.session].pc = "idle"

C14_MemoryComplete ==
  NoTurn =>
    /\ Len(memory) = Len(transcript)
    /\ \A i \in 1..Len(memory) :
         /\ memory[i].role = transcript[i].role
         /\ memory[i].content = transcript[i].content

\* C15: at both entry points an exception raised during a turn is caught,
\* the user gets the retry message, the cache is cleared and the session
\* accepts the next turn.
C15_ExceptionCaught ==
  event.exception =>
    /\ event.caught
    /\ event.message = MsgRetry
    /\ event.viderCache = 1
    /\ turn[event.session].pc = "idle"

\* C16: a turn of one session never reads or changes the memory of another:
\* the memory a turn loads holds only entries of its own session.
C16_SessionIsolation ==
  \A s \in Sessions : turn[s].seen \subseteq {s}

\* C17: an empty or whitespace-only query never reaches the agent or the
\* domain gate.
C17_EmptyNeverReachesAgent ==
  /\ \A s \in Sessions :
       turn[s].pc # "idle" => Strip(turn[s].input) # <<>>
  /\ Called => Strip(query) # <<>>

\* C18: turns on the one assistant are strictly sequential: at most one turn
\* is in progress at any time.
C18_OneTurnAtATime ==
  Cardinality({ s \in Sessions : turn[s].pc # "idle" }) <= 1

\* C19: the cache changes only by vider_cache, and vider_cache is called
\* exactly on the commands 'vider cache' / 'reset' and in the catch-all
\* handler of run().
C19_OnlyViderCache ==
  [][ /\ response_cache' # response_cache => event'.viderCache > 0
      /\ event'.viderCache = (IF event'.kind \in {"cli_reset", "cli_error"}
                                THEN 1 ELSE 0) ]_vars

C19_Witness ==
  /\ event.kind = "cli_error"
  /\ event.viderCache = 1
  /\ response_cache = {}
  /\ running

\* C20: response_cache is empty in every reachable state: no reply is ever
\* stored in it or served from it.
C20_CacheAlwaysEmpty ==
  response_cache = {}

C20_Witness ==
  /\ Len(memory) = 4
  /\ memory[1].content = memory[3].content
  /\ memory[2].role = "assistant"
  /\ response_cache = {}
  /\ event.agent
====
